---- MODULE Spec2Model ----
(***************************************************************************)
(* Nested Sets tree of treebeard/ns_tree.py (NS_Node, NS_NodeQuerySet).    *)
(* The table is a set of rows (id, tree_id, lft, rgt, depth, n); n is the  *)
(* user payload column.  Every operation is called on handles freshly read *)
(* from the table.  An operation that raises before its first write leaves *)
(* the table as it was and records the exception in last.res.              *)
(***************************************************************************)
EXTENDS Integers, FiniteSets, Sequences, TLC

\* bounds of the model
MaxNodes == 4
MaxTreeId == 4

\* the callers that may work on the table at the same time
Callers == {1, 2}

\* pks and payloads: a table has up to MaxNodes rows when calls come one
\* after the other, and one more per caller that works at the same time
Ids == 1..(MaxNodes + Cardinality(Callers))
SiblingPos == {"first-sibling", "left", "right", "last-sibling"}
ChildPos == {"first-child", "last-child"}
MovePos == SiblingPos \cup ChildPos

VARIABLES table, last, obj, run, procs
vars == <<table, last, obj, run, procs>>

\* Python's None where a node is expected
None == [id |-> 0, tree_id |-> 0, lft |-> 0, rgt |-> 0, depth |-> 0, n |-> 0]

\* ---- the default ordering of the model and ordered query sets ----------

\* Meta.ordering = ['tree_id', 'lft']; rows equal on both are taken in pk order
Before(a, b) ==
    \/ a.tree_id < b.tree_id
    \/ a.tree_id = b.tree_id /\ a.lft < b.lft
    \/ a.tree_id = b.tree_id /\ a.lft = b.lft /\ a.id < b.id

\* list(queryset)
OrderBy(S) ==
    [i \in 1..Cardinality(S) |->
        CHOOSE r \in S : Cardinality({q \in S : Before(q, r)}) = i - 1]

\* queryset[0] and queryset.reverse()[0], on a non-empty queryset
FirstOf(S) == CHOOSE r \in S : \A q \in S : q = r \/ Before(r, q)
LastOf(S) == CHOOSE r \in S : \A q \in S : q = r \/ Before(q, r)

\* the primary key the store gives a new row
NewId(t) == CHOOSE i \in Ids : i \notin {r.id : r \in t} /\
                \A j \in Ids : j < i => j \in {r.id : r \in t}

\* ---- read surface -------------------------------------------------------

\* objects.get(pk=i)
Row(t, i) == CHOOSE r \in t : r.id = i

is_leaf(self) == self.rgt - self.lft = 1

get_root_nodes(t) == {r \in t : r.lft = 1}

\* objects.get(tree_id=..., lft=1) raises unless exactly one row matches
get_root_ok(t, self) ==
    self.lft = 1 \/ Cardinality({r \in t : r.tree_id = self.tree_id /\ r.lft = 1}) = 1

get_root(t, self) ==
    IF self.lft = 1 THEN self
    ELSE CHOOSE r \in t : r.tree_id = self.tree_id /\ r.lft = 1

is_root(t, self) == get_root(t, self).id = self.id

get_last_root_node(t) ==
    IF get_root_nodes(t) = {} THEN None ELSE LastOf(get_root_nodes(t))

get_tree(t, parent) ==
    IF is_leaf(parent) THEN {r \in t : r.id = parent.id}
    ELSE {r \in t : r.tree_id = parent.tree_id /\
                    r.lft >= parent.lft /\ r.lft <= parent.rgt - 1}

get_descendants(t, self) ==
    IF is_leaf(self) THEN {} ELSE {r \in get_tree(t, self) : r.id # self.id}

get_descendant_count(self) == (self.rgt - self.lft - 1) \div 2

get_children(t, self) == {r \in get_descendants(t, self) : r.depth = self.depth + 1}

get_last_child(t, self) ==
    IF get_children(t, self) = {} THEN None ELSE LastOf(get_children(t, self))

get_ancestors(t, self) ==
    IF is_root(t, self) THEN {}
    ELSE {r \in t : r.tree_id = self.tree_id /\ r.lft < self.lft /\ r.rgt > self.rgt}

\* is_descendant_of with the two nodes taken the other way round
is_descendant_of_swapped(self, node) ==
    node.tree_id = self.tree_id /\ node.lft > self.lft /\ node.rgt < self.rgt

is_descendant_of(self, node) ==
    self.tree_id = node.tree_id /\ self.lft > node.lft /\ self.rgt < node.rgt

\* get_parent raises when is_root raises or when no ancestor is stored
get_parent_ok(t, self) ==
    get_root_ok(t, self) /\ (is_root(t, self) \/ get_ancestors(t, self) # {})

get_parent(t, self) ==
    IF is_root(t, self) THEN None ELSE LastOf(get_ancestors(t, self))

\* get_siblings raises when get_parent(True) raises or returns None
get_siblings_ok(t, self) ==
    self.lft = 1 \/ (get_parent_ok(t, self) /\ ~is_root(t, self))

get_siblings(t, self) ==
    IF self.lft = 1 THEN get_root_nodes(t)
    ELSE get_children(t, get_parent(t, self))

\* ---- encoding primitives (one UPDATE each) ------------------------------

\* move_right without tree_id in its WHERE clause: every tree is shifted
move_right_every_tree(t, tree_id, rgt, lftmove, incdec) ==
    {IF r.rgt >= rgt
        THEN [r EXCEPT !.lft = IF (IF lftmove THEN r.lft >= rgt ELSE r.lft > rgt)
                                  THEN r.lft + incdec ELSE r.lft,
                       !.rgt = r.rgt + incdec]
        ELSE r : r \in t}

\* lines 213-233: one UPDATE on the rows of tree_id at or right of rgt
move_right(t, tree_id, rgt, lftmove, incdec) ==
    {IF r.rgt >= rgt /\ r.tree_id = tree_id
        THEN [r EXCEPT !.lft = IF (IF lftmove THEN r.lft >= rgt ELSE r.lft > rgt)
                                  THEN r.lft + incdec ELSE r.lft,
                       !.rgt = r.rgt + incdec]
        ELSE r : r \in t}

\* move_tree_right with > for >=: the tree at tree_id is not shifted
move_tree_right_after(t, tree_id) ==
    {IF r.tree_id > tree_id THEN [r EXCEPT !.tree_id = r.tree_id + 1] ELSE r : r \in t}

move_tree_right(t, tree_id) ==
    {IF r.tree_id >= tree_id THEN [r EXCEPT !.tree_id = r.tree_id + 1] ELSE r : r \in t}

get_close_gap_sql(t, drop_lft, drop_rgt, tree_id) ==
    LET gapsize == drop_rgt - drop_lft + 1
    IN {IF (r.lft > drop_lft \/ r.rgt > drop_lft) /\ r.tree_id = tree_id
           THEN [r EXCEPT !.lft = IF r.lft > drop_lft THEN r.lft - gapsize ELSE r.lft,
                          !.rgt = IF r.rgt > drop_lft THEN r.rgt - gapsize ELSE r.rgt]
           ELSE r : r \in t}

\* lft, rgt, tree_id and depth are PositiveIntegerField columns: the store
\* refuses an UPDATE that leaves a negative value in one of them, and the
\* failed transaction is rolled back
Storable(t) ==
    \A r \in t : r.lft >= 0 /\ r.rgt >= 0 /\ r.tree_id >= 0 /\ r.depth >= 0

\* ---- results of an operation --------------------------------------------

\* the operation raised exc before writing anything
Raise(t, exc) == [res |-> exc, t |-> t, new |-> 0, added |-> <<>>]
\* the operation returned; new is the pk of the row it created, if any, and
\* added the list of pks load_bulk returns
Return(t, new) == [res |-> "ok", t |-> t, new |-> new, added |-> <<>>]

NewRow(t, tree_id, lft, depth, n) ==
    [id |-> NewId(t), tree_id |-> tree_id, lft |-> lft, rgt |-> lft + 1,
     depth |-> depth, n |-> n]

\* ---- add_root, add_sibling, add_child (node_order_by = []) --------------

\* add_root that puts the new root first: every tree is renumbered
add_root_first(t, n) ==
    Return(move_tree_right(t, 1) \cup {NewRow(t, 1, 1, 1, n)}, NewId(t))

add_root(t, n) ==
    LET last_root == get_last_root_node(t)
        newtree_id == IF last_root # None THEN last_root.tree_id + 1 ELSE 1
    IN Return(t \cup {NewRow(t, newtree_id, 1, 1, n)}, NewId(t))

\* the loop at lines 350-355 without its step to the next sibling
NextSibling_stuck(siblings, target) == target

\* siblings[i+1] of the loop at lines 350-355, target itself when there is none
NextSibling(siblings, target) ==
    IF \E i \in 1..(Len(siblings) - 1) : siblings[i].id = target.id
    THEN siblings[(CHOOSE i \in 1..(Len(siblings) - 1) : siblings[i].id = target.id) + 1]
    ELSE target

\* cached is self._cached_parent_obj (None when the attribute is not set)
add_sibling(t, self, pos0, n, cached) ==
    IF ~get_root_ok(t, self) THEN Raise(t, "DoesNotExist")
    ELSE IF is_root(t, self) THEN
        LET last_root == get_last_root_node(t)
        IN IF pos0 = "last-sibling" \/ (pos0 = "right" /\ self.id = last_root.id)
           THEN Return(t \cup {NewRow(t, last_root.tree_id + 1, 1, self.depth, n)}, NewId(t))
           ELSE LET newpos == CASE pos0 = "first-sibling" -> 1
                                [] pos0 = "left" -> self.tree_id
                                [] pos0 = "right" -> self.tree_id + 1
                IN Return(move_tree_right(t, newpos)
                              \cup {NewRow(t, newpos, 1, self.depth, n)}, NewId(t))
    ELSE
        LET norm == pos0 \in {"left", "right", "first-sibling"}
            siblings == OrderBy(get_siblings(t, self))
            atLast == self.id = siblings[Len(siblings)].id
            pos1 == IF pos0 = "right" THEN (IF atLast THEN "last-sibling" ELSE "left")
                    ELSE pos0
            target1 == IF pos0 = "right" /\ ~atLast THEN NextSibling(siblings, self)
                       ELSE self
            pos == IF pos1 = "left" /\ target1.id = siblings[1].id
                   THEN "first-sibling" ELSE pos1
            target == IF pos = "first-sibling" THEN siblings[1] ELSE target1
            parent == IF ~norm /\ cached # None THEN cached ELSE get_parent(t, target)
        IN IF norm /\ ~get_siblings_ok(t, self) THEN Raise(t, "IndexError")
           ELSE IF norm /\ Len(siblings) = 0 THEN Raise(t, "IndexError")
           ELSE IF pos = "last-sibling" /\ ~norm /\ cached = None /\ ~get_parent_ok(t, target)
                THEN Raise(t, "IndexError")
           ELSE LET newpos == IF pos = "last-sibling" THEN parent.rgt ELSE target.lft
                    shifted == CASE pos = "last-sibling" ->
                                      move_right(t, target.tree_id, newpos, FALSE, 2)
                                 [] pos = "first-sibling" ->
                                      move_right(t, target.tree_id, newpos - 1, FALSE, 2)
                                 [] pos = "left" ->
                                      move_right(t, target.tree_id, newpos, TRUE, 2)
                IN Return(shifted \cup {NewRow(t, self.tree_id, newpos, self.depth, n)},
                          NewId(t))

add_child(t, self, n) ==
    IF ~is_leaf(self) THEN
        LET last_child == get_last_child(t, self)
        IN IF last_child = None THEN Raise(t, "AttributeError")
           ELSE add_sibling(t, last_child, "last-sibling", n, self)
    ELSE
        Return(move_right(t, self.tree_id, self.rgt, FALSE, 2)
                   \cup {NewRow(t, self.tree_id, self.lft + 1, self.depth + 1, n)},
               NewId(t))

\* ---- what a call leaves in the object it was made on --------------------

\* line 276: only the branch of a leaf receiver updates self.rgt
add_child_self(self) ==
    IF is_leaf(self) THEN [self EXCEPT !.rgt = self.rgt + 2] ELSE self

\* self._cached_parent_obj after add_sibling: get_siblings() at line 342
\* reads the parent again (get_parent(True)), get_parent() at line 365 keeps
\* a parent that is cached and reads it otherwise
add_sibling_cached(t, self, pos0, cached) ==
    IF ~get_root_ok(t, self) THEN cached
    ELSE IF is_root(t, self) THEN cached
    ELSE IF pos0 \in {"left", "right", "first-sibling"}
         THEN (IF get_siblings_ok(t, self) THEN get_parent(t, self) ELSE cached)
    ELSE IF cached # None THEN cached
    ELSE IF get_parent_ok(t, self) THEN get_parent(t, self) ELSE cached

\* ---- sorted insertion (node_order_by = ['n']) ---------------------------

\* the siblings whose key is not less than the key of the new node
get_sorted_pos_queryset(siblings, n) == {r \in siblings : r.n >= n}

\* add_sibling_sorted that goes to the right of the first greater sibling
add_sibling_sorted_right(t, self, n, cached) ==
    IF ~get_root_ok(t, self) THEN Raise(t, "DoesNotExist")
    ELSE IF ~get_siblings_ok(t, self) THEN Raise(t, "IndexError")
    ELSE LET siblings == OrderBy(get_sorted_pos_queryset(get_siblings(t, self), n))
         IN IF Len(siblings) > 0 THEN add_sibling(t, siblings[1], "right", n, None)
            ELSE add_sibling(t, self, "last-sibling", n, None)

\* add_sibling('sorted-sibling'): lines 309-316 for a root, 332-339 for any
\* other node; get_siblings() has dropped the cached parent of self
add_sibling_sorted(t, self, n, cached) ==
    IF ~get_root_ok(t, self) THEN Raise(t, "DoesNotExist")
    ELSE IF ~get_siblings_ok(t, self) THEN Raise(t, "IndexError")
    ELSE LET siblings == OrderBy(get_sorted_pos_queryset(get_siblings(t, self), n))
         IN IF Len(siblings) > 0 THEN add_sibling(t, siblings[1], "left", n, None)
            ELSE add_sibling(t, self, "last-sibling", n, None)

\* add_root of a model with a sort key: lines 168-173, then as add_root
add_root_sorted(t, n) ==
    LET last_root == get_last_root_node(t)
    IN IF last_root # None THEN add_sibling_sorted(t, last_root, n, None)
       ELSE add_root(t, n)

\* add_child of a model with a sort key: pos = 'sorted-sibling' at line 256
add_child_sorted(t, self, n) ==
    IF ~is_leaf(self) THEN
        LET last_child == get_last_child(t, self)
        IN IF last_child = None THEN Raise(t, "AttributeError")
           ELSE add_sibling_sorted(t, last_child, n, self)
    ELSE add_child(t, self, n)

\* ---- move ---------------------------------------------------------------

\* the relocation that leaves the subtree in the tree it is in
relocate_same_tree(t, fromobj, target_tree, newpos, depthdiff) ==
    {IF r.tree_id = fromobj.tree_id /\ r.lft >= fromobj.lft /\ r.lft <= fromobj.rgt
        THEN [r EXCEPT !.lft = r.lft + (newpos - fromobj.lft),
                       !.rgt = r.rgt + (newpos - fromobj.lft),
                       !.depth = r.depth + depthdiff]
        ELSE r : r \in t}

\* lines 497-512: the subtree of fromobj goes to (target_tree, newpos)
relocate(t, fromobj, target_tree, newpos, depthdiff) ==
    {IF r.tree_id = fromobj.tree_id /\ r.lft >= fromobj.lft /\ r.lft <= fromobj.rgt
        THEN [r EXCEPT !.tree_id = target_tree,
                       !.lft = r.lft + (newpos - fromobj.lft),
                       !.rgt = r.rgt + (newpos - fromobj.lft),
                       !.depth = r.depth + depthdiff]
        ELSE r : r \in t}

\* move_exec without the reload of line 490: self as it was read before the hole
move_exec_stale(t, self, target, pos, parent) ==
    LET gap == self.rgt - self.lft + 1
        troot == pos # "last-child" /\ is_root(t, target)
        target_tree == IF troot /\ pos = "last-sibling"
                           THEN LastOf(get_siblings(t, target)).tree_id + 1
                       ELSE IF troot /\ pos = "first-sibling" THEN 1
                       ELSE target.tree_id
        newpos == IF pos = "last-child" THEN parent.rgt
                  ELSE IF troot THEN 1
                  ELSE IF pos = "last-sibling" THEN get_parent(t, target).rgt
                  ELSE target.lft
        hole == IF pos = "last-child" THEN move_right(t, target.tree_id, newpos, FALSE, gap)
                ELSE IF troot THEN
                    (IF pos = "first-sibling" THEN move_tree_right(t, 1)
                     ELSE IF pos = "left" THEN move_tree_right(t, target.tree_id)
                     ELSE t)
                ELSE IF pos = "last-sibling" THEN move_right(t, target.tree_id, newpos, FALSE, gap)
                ELSE IF pos = "first-sibling"
                    THEN move_right(t, target.tree_id, newpos - 1, FALSE, gap)
                ELSE move_right(t, target.tree_id, newpos, TRUE, gap)
        fromobj == self
        depthdiff == target.depth - fromobj.depth + (IF parent # None THEN 1 ELSE 0)
        moved == relocate(hole, fromobj, target_tree, newpos, depthdiff)
        closed == get_close_gap_sql(moved, fromobj.lft, fromobj.rgt, fromobj.tree_id)
    IN IF pos # "last-child" /\ ~get_root_ok(t, target) THEN Raise(t, "DoesNotExist")
       ELSE IF pos = "last-sibling" /\ ~troot /\ ~get_parent_ok(t, target)
            THEN Raise(t, "IndexError")
       ELSE IF ~(Storable(hole) /\ Storable(moved) /\ Storable(closed))
            THEN Raise(t, "IntegrityError")
       ELSE Return(closed, 0)

\* lines 454-519, after the position is normalised; parent is None unless
\* the node goes under a leaf
move_exec(t, self, target, pos, parent) ==
    LET gap == self.rgt - self.lft + 1
        troot == pos # "last-child" /\ is_root(t, target)
        target_tree == IF troot /\ pos = "last-sibling"
                           THEN LastOf(get_siblings(t, target)).tree_id + 1
                       ELSE IF troot /\ pos = "first-sibling" THEN 1
                       ELSE target.tree_id
        newpos == IF pos = "last-child" THEN parent.rgt
                  ELSE IF troot THEN 1
                  ELSE IF pos = "last-sibling" THEN get_parent(t, target).rgt
                  ELSE target.lft
        hole == IF pos = "last-child" THEN move_right(t, target.tree_id, newpos, FALSE, gap)
                ELSE IF troot THEN
                    (IF pos = "first-sibling" THEN move_tree_right(t, 1)
                     ELSE IF pos = "left" THEN move_tree_right(t, target.tree_id)
                     ELSE t)
                ELSE IF pos = "last-sibling" THEN move_right(t, target.tree_id, newpos, FALSE, gap)
                ELSE IF pos = "first-sibling"
                    THEN move_right(t, target.tree_id, newpos - 1, FALSE, gap)
                ELSE move_right(t, target.tree_id, newpos, TRUE, gap)
        fromobj == Row(hole, self.id)
        depthdiff == target.depth - fromobj.depth + (IF parent # None THEN 1 ELSE 0)
        moved == relocate(hole, fromobj, target_tree, newpos, depthdiff)
        closed == get_close_gap_sql(moved, fromobj.lft, fromobj.rgt, fromobj.tree_id)
    IN IF pos # "last-child" /\ ~get_root_ok(t, target) THEN Raise(t, "DoesNotExist")
       ELSE IF pos = "last-sibling" /\ ~troot /\ ~get_parent_ok(t, target)
            THEN Raise(t, "IndexError")
       ELSE IF ~(Storable(hole) /\ Storable(moved) /\ Storable(closed))
            THEN Raise(t, "IntegrityError")
       ELSE Return(closed, 0)

\* lines 433-452: left, right and first-sibling against the siblings of target
move_siblings(t, self, target0, pos0) ==
    LET norm == pos0 \in {"left", "right", "first-sibling"}
        siblings == OrderBy(get_siblings(t, target0))
        atLast == target0.id = siblings[Len(siblings)].id
        pos1 == IF pos0 = "right" THEN (IF atLast THEN "last-sibling" ELSE "left")
                ELSE pos0
        target1 == IF pos0 = "right" /\ ~atLast THEN NextSibling(siblings, target0)
                   ELSE target0
        pos == IF pos1 = "left" /\ target1.id = siblings[1].id
               THEN "first-sibling" ELSE pos1
        target == IF pos = "first-sibling" THEN siblings[1] ELSE target1
    IN IF norm /\ ~get_siblings_ok(t, target0) THEN Raise(t, "IndexError")
       ELSE IF norm /\ Len(siblings) = 0 THEN Raise(t, "IndexError")
       ELSE move_exec(t, self, target, pos, None)

\* the test of lines 416-421 without the case of 'right'
move_is_noop_noright(t, self, target, pos) ==
    self.id = target.id /\
       (\/ pos = "left"
        \/ pos = "last-sibling" /\ target.id = LastOf(get_siblings(t, target)).id
        \/ pos = "first-sibling" /\ target.id = FirstOf(get_siblings(t, target)).id)

\* lines 416-421: the moves that change nothing
move_is_noop(t, self, target, pos) ==
    self.id = target.id /\
       (\/ pos = "left"
        \/ pos \in {"right", "last-sibling"} /\ target.id = LastOf(get_siblings(t, target)).id
        \/ pos = "first-sibling" /\ target.id = FirstOf(get_siblings(t, target)).id)

\* get_last_sibling / get_first_sibling of lines 419 and 421 raise
move_noop_raises(t, self, target, pos) ==
    self.id = target.id /\ pos \in {"right", "last-sibling", "first-sibling"} /\
       (~get_siblings_ok(t, target) \/ get_siblings(t, target) = {})

move(t, self, target0, pos0) ==
    LET child == pos0 \in ChildPos
        parent == IF child /\ is_leaf(target0) THEN target0 ELSE None
        target == IF child /\ ~is_leaf(target0) THEN get_last_child(t, target0) ELSE target0
        pos == IF ~child THEN pos0
               ELSE IF is_leaf(target0) THEN "last-child"
               ELSE IF pos0 = "first-child" THEN "first-sibling" ELSE "last-sibling"
    IN IF target = None THEN Raise(t, "AttributeError")
       ELSE IF is_descendant_of(target, self) THEN Raise(t, "InvalidMoveToDescendant")
       ELSE IF move_noop_raises(t, self, target, pos) THEN Raise(t, "IndexError")
       ELSE IF move_is_noop(t, self, target, pos) THEN [res |-> "noop", t |-> t, new |-> 0, added |-> <<>>]
       ELSE IF pos = "last-child" THEN move_exec(t, self, target, pos, parent)
       ELSE move_siblings(t, self, target, pos)

\* lines 402-452: what reaches line 454, or how the call ends before it
move_target(t, self, target0, pos0) ==
    LET child == pos0 \in ChildPos
        parent == IF child /\ is_leaf(target0) THEN target0 ELSE None
        target == IF child /\ ~is_leaf(target0) THEN get_last_child(t, target0) ELSE target0
        pos == IF ~child THEN pos0
               ELSE IF is_leaf(target0) THEN "last-child"
               ELSE IF pos0 = "first-child" THEN "first-sibling" ELSE "last-sibling"
        norm == pos \in {"left", "right", "first-sibling"}
        siblings == OrderBy(get_siblings(t, target))
        atLast == target.id = siblings[Len(siblings)].id
        pos1 == IF pos = "right" THEN (IF atLast THEN "last-sibling" ELSE "left")
                ELSE pos
        target1 == IF pos = "right" /\ ~atLast THEN NextSibling(siblings, target)
                   ELSE target
        pos2 == IF pos1 = "left" /\ target1.id = siblings[1].id
                THEN "first-sibling" ELSE pos1
        target2 == IF pos2 = "first-sibling" THEN siblings[1] ELSE target1
        End(res) == [res |-> res, target |-> None, pos |-> "", parent |-> None]
    IN IF target = None THEN End("AttributeError")
       ELSE IF is_descendant_of(target, self) THEN End("InvalidMoveToDescendant")
       ELSE IF move_noop_raises(t, self, target, pos) THEN End("IndexError")
       ELSE IF move_is_noop(t, self, target, pos) THEN End("noop")
       ELSE IF pos = "last-child"
            THEN [res |-> "go", target |-> target, pos |-> pos, parent |-> parent]
       ELSE IF norm /\ ~get_siblings_ok(t, target) THEN End("IndexError")
       ELSE IF norm /\ Len(siblings) = 0 THEN End("IndexError")
       ELSE [res |-> "go", target |-> target2, pos |-> pos2, parent |-> None]

\* lines 457-486: gap, target_tree, newpos and the table once the statement
\* that makes the hole has run (no statement for last-sibling of a root)
move_hole(t, self, target, pos, parent) ==
    LET gap == self.rgt - self.lft + 1
        troot == pos # "last-child" /\ is_root(t, target)
        target_tree == IF troot /\ pos = "last-sibling"
                           THEN LastOf(get_siblings(t, target)).tree_id + 1
                       ELSE IF troot /\ pos = "first-sibling" THEN 1
                       ELSE target.tree_id
        newpos == IF pos = "last-child" THEN parent.rgt
                  ELSE IF troot THEN 1
                  ELSE IF pos = "last-sibling" THEN get_parent(t, target).rgt
                  ELSE target.lft
        hole == IF pos = "last-child" THEN move_right(t, target.tree_id, newpos, FALSE, gap)
                ELSE IF troot THEN
                    (IF pos = "first-sibling" THEN move_tree_right(t, 1)
                     ELSE IF pos = "left" THEN move_tree_right(t, target.tree_id)
                     ELSE t)
                ELSE IF pos = "last-sibling" THEN move_right(t, target.tree_id, newpos, FALSE, gap)
                ELSE IF pos = "first-sibling"
                    THEN move_right(t, target.tree_id, newpos - 1, FALSE, gap)
                ELSE move_right(t, target.tree_id, newpos, TRUE, gap)
    IN IF pos # "last-child" /\ ~get_root_ok(t, target)
           THEN [res |-> "DoesNotExist", gap |-> gap, target_tree |-> 0, newpos |-> 0, t |-> t]
       ELSE IF pos = "last-sibling" /\ ~troot /\ ~get_parent_ok(t, target)
           THEN [res |-> "IndexError", gap |-> gap, target_tree |-> 0, newpos |-> 0, t |-> t]
       ELSE [res |-> "go", gap |-> gap, target_tree |-> target_tree, newpos |-> newpos,
             t |-> hole]

\* the reload that gives back the object the caller passed
reload_stale(t, self) == self

\* line 490: fromobj = cls.objects.get(pk=self.id)
reload(t, self) == Row(t, self.id)

\* ---- delete -------------------------------------------------------------

\* lines 71-79: nodes in (tree_id, lft) order, one is skipped when a node
\* already kept is its ancestor
RECURSIVE Accumulate(_, _)
Accumulate(nodes, removed) ==
    IF nodes = <<>> THEN removed
    ELSE LET node == Head(nodes)
             found == \E rnode \in removed : is_descendant_of(node, rnode)
         IN Accumulate(Tail(nodes), IF found THEN removed ELSE removed \cup {node})

\* sorted(removed_ranges, reverse=True), one (tree_id, lft, rgt) per kept node
RangeAfter(a, b) ==
    \/ a.tree_id > b.tree_id
    \/ a.tree_id = b.tree_id /\ a.lft > b.lft
    \/ a.tree_id = b.tree_id /\ a.lft = b.lft /\ a.rgt > b.rgt
    \/ a.tree_id = b.tree_id /\ a.lft = b.lft /\ a.rgt = b.rgt /\ a.id > b.id

\* the removed ranges taken in ascending order
SortedForward(R) ==
    [i \in 1..Cardinality(R) |->
        CHOOSE x \in R : Cardinality({y \in R : RangeAfter(x, y)}) = i - 1]

\* line 63: the ranges from the last tree and the rightmost range down
SortedReverse(R) ==
    [i \in 1..Cardinality(R) |->
        CHOOSE x \in R : Cardinality({y \in R : RangeAfter(y, x)}) = i - 1]

RECURSIVE CloseGaps(_, _)
CloseGaps(t, ranges) ==
    IF ranges = <<>> THEN t
    ELSE CloseGaps(get_close_gap_sql(t, Head(ranges).lft, Head(ranges).rgt,
                                     Head(ranges).tree_id),
                   Tail(ranges))

\* lines 50-66: the rows are deleted, then every gap is closed
delete_ranges(t, doomed, removed_ranges) ==
    CloseGaps(t \ doomed, removed_ranges)

\* lines 71-91: the minimal cover of the query set and the rows it takes
delete_cover(t, S) ==
    LET removed == Accumulate(OrderBy(S), {})
    IN [removed |-> removed,
        toremove |-> {r \in t : \E node \in removed :
                        r.tree_id = node.tree_id /\ r.lft >= node.lft /\ r.lft <= node.rgt}]

\* delete whose range filter leaves out the left end of each range
delete_exclusive(t, S) ==
    LET removed == Accumulate(OrderBy(S), {})
        toremove == {r \in t : \E node \in removed :
                        r.tree_id = node.tree_id /\ r.lft > node.lft /\ r.lft <= node.rgt}
    IN IF removed = {} THEN Return(t, 0)
       ELSE Return(delete_ranges(t, toremove, SortedReverse(removed)), 0)

\* NS_NodeQuerySet.delete() on the query set S
delete(t, S) ==
    LET removed == Accumulate(OrderBy(S), {})
        toremove == {r \in t : \E node \in removed :
                        r.tree_id = node.tree_id /\ r.lft >= node.lft /\ r.lft <= node.rgt}
    IN IF removed = {} THEN Return(t, 0)
       ELSE Return(delete_ranges(t, toremove, SortedReverse(removed)), 0)

\* ---- dump_bulk and load_bulk --------------------------------------------

\* The records dump_bulk builds are shared between ret, lnk and the children
\* lists; lnk maps a pk to [data, children], children being the pks of the
\* records appended to it, and ret lists the pks of the top records.

\* lines 642-672, for parent = None
RECURSIVE DumpRows(_, _, _, _)
DumpRows(t, rows, ret, lnk) ==
    IF rows = <<>> THEN [ret |-> ret, lnk |-> lnk]
    ELSE LET pyobj == Head(rows)
             newobj == [data |-> [n |-> pyobj.n], children |-> <<>>]
         IN IF pyobj.depth = 1
            THEN DumpRows(t, Tail(rows), Append(ret, pyobj.id),
                          (pyobj.id :> newobj) @@ lnk)
            ELSE LET parentobj == get_parent(t, pyobj)
                     parentser == lnk[parentobj.id]
                     lnk1 == [lnk EXCEPT ![parentobj.id] =
                                 [parentser EXCEPT
                                     !.children = Append(parentser.children, pyobj.id)]]
                 IN DumpRows(t, Tail(rows), ret, (pyobj.id :> newobj) @@ lnk1)

\* the record the pk stands for: 'children' is a key of it only when a
\* record was appended; keep_ids = False leaves out 'id'
RECURSIVE Record(_, _)
Record(lnk, id) ==
    IF lnk[id].children = <<>> THEN [data |-> lnk[id].data]
    ELSE [data |-> lnk[id].data,
          children |-> [i \in 1..Len(lnk[id].children) |->
                            Record(lnk, lnk[id].children[i])]]

\* dump_bulk(parent=None, keep_ids=False)
dump_bulk(t) ==
    LET d == DumpRows(t, OrderBy(t), <<>>, <<>>)
    IN [i \in 1..Len(d.ret) |-> Record(d.lnk, d.ret[i])]

\* seq[::-1]
Reversed(seq) == [i \in 1..Len(seq) |-> seq[Len(seq) + 1 - i]]

\* the list of pairs without the [::-1]
Pairs_forward(parent_id, nodes) ==
    [i \in 1..Len(nodes) |-> <<parent_id, nodes[i]>>]

\* [(parent_id, node) for node in nodes[::-1]]
Pairs(parent_id, nodes) ==
    [i \in 1..Len(nodes) |-> <<parent_id, Reversed(nodes)[i]>>]

\* lines 560-578; parent_id 0 is None.  A record without 'data', or without
\* 'id' when keep_ids is set, raises KeyError when it is popped: the rows
\* added before it stay.  With keep_ids the new object is saved under the
\* pk of the record, which overwrites a row that has this pk.
RECURSIVE LoadStack(_, _, _, _)
LoadStack(t, stack, added, keep_ids) ==
    IF stack = <<>> THEN [res |-> "ok", t |-> t, new |-> 0, added |-> added]
    ELSE LET parent_id == stack[Len(stack)][1]
             node_struct == stack[Len(stack)][2]
             rest == SubSeq(stack, 1, Len(stack) - 1)
             node_data == node_struct.data
             Saved(created) ==
                 IF ~keep_ids THEN created
                 ELSE [created EXCEPT
                         !.t = {r \in created.t :
                                   r.id \notin {node_struct.id, created.new}}
                               \cup {[Row(created.t, created.new)
                                         EXCEPT !.id = node_struct.id]},
                         !.new = node_struct.id]
             Pushed(node_obj) ==
                 LoadStack(node_obj.t,
                           IF "children" \in DOMAIN node_struct
                           THEN rest \o Pairs(node_obj.new, node_struct.children)
                           ELSE rest,
                           Append(added, node_obj.new), keep_ids)
             Created(created) ==
                 IF created.res # "ok"
                 THEN [res |-> created.res, t |-> t, new |-> 0, added |-> added]
                 ELSE CHOOSE out \in {Pushed(node_obj) :
                                         node_obj \in {Saved(created)}} : TRUE
         IN IF "data" \notin DOMAIN node_struct
                \/ (keep_ids /\ "id" \notin DOMAIN node_struct)
            THEN [res |-> "KeyError", t |-> t, new |-> 0, added |-> added]
            ELSE IF parent_id # 0 /\ ~\E r \in t : r.id = parent_id
            THEN [res |-> "DoesNotExist", t |-> t, new |-> 0, added |-> added]
            ELSE CHOOSE out \in
                     {Created(created) :
                         created \in {IF parent_id # 0
                                      THEN add_child(t, Row(t, parent_id), node_data.n)
                                      ELSE add_root(t, node_data.n)}} : TRUE

\* load_bulk(bulk_data, parent=None, keep_ids)
load_bulk(t, bulk_data, keep_ids) == LoadStack(t, Pairs(0, bulk_data), <<>>, keep_ids)

\* ---- the state machine --------------------------------------------------

\* ---- the encoding invariants of a table ---------------------------------

TreeIds(t) == {r.tree_id : r \in t}
TreeRows(t, tid) == {r \in t : r.tree_id = tid}

\* lft and rgt of the N rows of a tree are pairwise distinct and fill 1..2N
Contiguous(t) ==
    \A tid \in TreeIds(t) :
        LET rows == TreeRows(t, tid)
        IN /\ {r.lft : r \in rows} \cup {r.rgt : r \in rows} = 1..(2 * Cardinality(rows))
           /\ \A r \in rows : r.lft # r.rgt
           /\ \A r, q \in rows : r.id # q.id =>
                 r.lft # q.lft /\ r.rgt # q.rgt /\ r.lft # q.rgt

\* intervals are proper and any two of a tree are disjoint or strictly nested
Nested(t) ==
    /\ \A r \in t : r.lft < r.rgt
    /\ \A r, q \in t : r.id # q.id /\ r.tree_id = q.tree_id =>
          \/ r.rgt < q.lft
          \/ q.rgt < r.lft
          \/ r.lft < q.lft /\ q.rgt < r.rgt
          \/ q.lft < r.lft /\ r.rgt < q.rgt

\* the rows whose interval strictly contains the interval of r
Enclosing(t, r) ==
    {a \in t : a.tree_id = r.tree_id /\ a.lft < r.lft /\ a.rgt > r.rgt}

DepthOk(t) == \A r \in t : r.depth = Cardinality(Enclosing(t, r)) + 1

Intact(t) == Contiguous(t) /\ Nested(t) /\ DepthOk(t)

\* the cap on tree_id, which add_root and move would otherwise raise for ever
Bounded(t) == \A r \in t : r.tree_id \in 1..MaxTreeId

\* the payload of a new row: the columns are opaque to the engine
\* (node_order_by = []), so every row is given a value no stored row carries
Payloads(t) ==
    {CHOOSE n \in Ids : n \notin {r.n : r \in t} /\
         \A m \in Ids : m < n => m \in {r.n : r \in t}}

\* The object a caller keeps across calls: row holds its fields as they are
\* in memory, cached its _cached_parent_obj (None when the attribute is not
\* set), first the row as it was read, calls the calls made on it so far.
NoObj == [row |-> None, cached |-> None, first |-> None, calls |-> <<>>]

\* The call that is being executed statement by statement: its arguments
\* (a is the pk of self, S the pks of a deleted query set), the table t0 it
\* started on, the statement it has reached (pc) and the local variables of
\* the code.
NoRun ==
    [op |-> "none", pc |-> "idle", a |-> 0, S |-> {},
     t0 |-> {}, self |-> None, target |-> None, pos |-> "", parent |-> None,
     gap |-> 0, newpos |-> 0, target_tree |-> 0, fromobj |-> None,
     ranges |-> <<>>, res |-> ""]

\* Two callers that work on the table at the same time.  Each holds the
\* call it is making (op, pos, the payload n of the new row), the object it
\* read (self), the table t0 it read it from, the last root add_root has
\* read (last_root), the statement it has reached (pc), and the outcome.
NoProc ==
    [op |-> "none", pc |-> "idle", self |-> None, pos |-> "", n |-> 0, t0 |-> {},
     last_root |-> None, res |-> "", new |-> 0]

NoProcs == [i \in Callers |-> NoProc]

\* what the last call was: its receiver a, its target b, its position, the
\* pks of a deleted query set, the number of rows it found in the table, its
\* outcome, the pk of the new row and the pks load_bulk returned
Call(op, a, b, pos, S, r) ==
    [op |-> op, a |-> a, b |-> b, pos |-> pos, S |-> S, size |-> Cardinality(table),
     res |-> r.res, new |-> r.new, added |-> r.added]

Step(op, a, b, pos, S, r) ==
    \E out \in {r} :
       /\ Bounded(out.t)
       /\ table' = out.t
       /\ last' = Call(op, a, b, pos, S, out)
       /\ UNCHANGED <<obj, run, procs>>

\* no call is being looked at: the caller has dropped the last result
NoCall ==
    [op |-> "none", a |-> 0, b |-> 0, pos |-> "", S |-> {}, size |-> 0,
     res |-> "ok", new |-> 0, added |-> <<>>]

\* no call is in progress, and the caller holds neither a result nor an
\* object
Idle == last = NoCall /\ obj = NoObj /\ run = NoRun /\ procs = NoProcs

Init ==
    /\ table = {}
    /\ last = NoCall
    /\ obj = NoObj
    /\ run = NoRun
    /\ procs = NoProcs

\* Every call is made on handles read from the table after the last call has
\* returned.  Operations are explored on tables that satisfy the encoding
\* invariants; a table that an operation has broken is reached and not
\* operated on again.
AddRoot ==
    /\ Idle
    /\ Intact(table)
    /\ Cardinality(table) < MaxNodes
    /\ \E n \in Payloads(table) :
          Step("add_root", 0, 0, "", {}, add_root(table, n))

AddChild ==
    /\ Idle
    /\ Intact(table)
    /\ Cardinality(table) < MaxNodes
    /\ \E self \in table, n \in Payloads(table) :
          Step("add_child", self.id, 0, "", {}, add_child(table, self, n))

AddSibling ==
    /\ Idle
    /\ Intact(table)
    /\ Cardinality(table) < MaxNodes
    /\ \E self \in table, pos \in SiblingPos, n \in Payloads(table) :
          Step("add_sibling", self.id, 0, pos, {}, add_sibling(table, self, pos, n, None))

Move ==
    /\ Idle
    /\ Intact(table)
    /\ \E self \in table, target \in table, pos \in MovePos :
          Step("move", self.id, target.id, pos, {}, move(table, self, target, pos))

Delete ==
    /\ Idle
    /\ Intact(table)
    /\ \E S \in SUBSET table :
          Step("delete", 0, 0, "", {r.id : r \in S}, delete(table, S))

\* the caller is done with the result of its last call
Forget ==
    /\ last # NoCall
    /\ last' = NoCall
    /\ UNCHANGED <<table, obj, run, procs>>

\* data = dump_bulk(keep_ids=False), every row is deleted, load_bulk(data)
BulkRoundTrip ==
    /\ Idle
    /\ Intact(table)
    /\ table # {}
    /\ \E r \in {load_bulk(delete(table, table).t, dump_bulk(table), FALSE)} :
          Step("load_bulk", 0, 0, "", {}, r)

\* ---- calls on an object that is kept across calls -----------------------

\* the number of calls made on one object
MaxCalls == 3

\* node = Model.objects.get(pk=...)
Fetch ==
    /\ Idle
    /\ Intact(table)
    /\ \E r \in table :
          obj' = [row |-> r, cached |-> None, first |-> r, calls |-> <<>>]
    /\ UNCHANGED <<table, last, run, procs>>

\* node.add_child(n=...) on the kept object
AddChildOn ==
    /\ obj # NoObj
    /\ Intact(table)
    /\ Cardinality(table) < MaxNodes
    /\ Len(obj.calls) < MaxCalls
    /\ \E n \in Payloads(table) :
          LET r == add_child(table, obj.row, n)
          IN /\ Bounded(r.t)
             /\ table' = r.t
             /\ obj' = [obj EXCEPT
                           !.row = IF r.res = "ok" THEN add_child_self(obj.row)
                                   ELSE obj.row,
                           !.calls = Append(obj.calls,
                                        [op |-> "add_child", pos |-> "",
                                         res |-> r.res, new |-> r.new])]
    /\ UNCHANGED <<last, run, procs>>

\* node.add_sibling(pos, n=...) on the kept object
AddSiblingOn ==
    /\ obj # NoObj
    /\ Intact(table)
    /\ Cardinality(table) < MaxNodes
    /\ Len(obj.calls) < MaxCalls
    /\ \E pos \in SiblingPos, n \in Payloads(table) :
          LET r == add_sibling(table, obj.row, pos, n, obj.cached)
          IN /\ Bounded(r.t)
             /\ table' = r.t
             /\ obj' = [obj EXCEPT
                           !.cached = add_sibling_cached(table, obj.row, pos, obj.cached),
                           !.calls = Append(obj.calls,
                                        [op |-> "add_sibling", pos |-> pos,
                                         res |-> r.res, new |-> r.new])]
    /\ UNCHANGED <<last, run, procs>>

\* the caller drops the object
Release ==
    /\ obj # NoObj
    /\ obj' = NoObj
    /\ UNCHANGED <<table, last, run, procs>>

\* ---- move and delete, one statement at a time ---------------------------

\* the table and the statement reached once an UPDATE has been executed:
\* the store refuses a negative value, the call ends and is rolled back
Executed(new, pc) ==
    IF Storable(new) THEN table' = new /\ run' = [run EXCEPT !.pc = pc]
    ELSE table' = run.t0 /\ run' = [run EXCEPT !.pc = "done", !.res = "IntegrityError"]

\* lines 396-486: the position is normalised, which rebinds target and pos,
\* and the hole is made
MoveOpenHole ==
    /\ Idle
    /\ Intact(table)
    /\ \E self \in table, target0 \in table, pos0 \in MovePos :
          \E a \in {move_target(table, self, target0, pos0)} :
             /\ a.res = "go"
             /\ \E h \in {move_hole(table, self, a.target, a.pos, a.parent)} :
                   /\ h.res = "go"
                   /\ Bounded(move(table, self, target0, pos0).t)
                   /\ \E started \in {[NoRun EXCEPT
                                          !.op = "move", !.a = self.id, !.t0 = table,
                                          !.self = self, !.target = a.target,
                                          !.pos = a.pos, !.parent = a.parent,
                                          !.gap = h.gap, !.newpos = h.newpos,
                                          !.target_tree = h.target_tree,
                                          !.res = "ok"]} :
                         IF Storable(h.t)
                         THEN table' = h.t /\ run' = [started EXCEPT !.pc = "hole"]
                         ELSE table' = table /\
                              run' = [started EXCEPT !.pc = "done",
                                                     !.res = "IntegrityError"]
    /\ UNCHANGED <<last, obj, procs>>

\* line 490
MoveReload ==
    /\ run.op = "move" /\ run.pc = "hole"
    /\ run' = [run EXCEPT !.pc = "reloaded", !.fromobj = reload(table, run.self)]
    /\ UNCHANGED <<table, last, obj, procs>>

\* lines 492-512
MoveRelocate ==
    /\ run.op = "move" /\ run.pc = "reloaded"
    /\ LET depthdiff == run.target.depth - run.fromobj.depth
                           + (IF run.parent # None THEN 1 ELSE 0)
       IN Executed(relocate(table, run.fromobj, run.target_tree, run.newpos, depthdiff),
                   "relocated")
    /\ UNCHANGED <<last, obj, procs>>

\* lines 515-517
MoveCloseGap ==
    /\ run.op = "move" /\ run.pc = "relocated"
    /\ Executed(get_close_gap_sql(table, run.fromobj.lft, run.fromobj.rgt,
                                   run.fromobj.tree_id), "done")
    /\ UNCHANGED <<last, obj, procs>>

\* lines 71-91 and 54: the cover of the query set is computed and the rows
\* of its ranges are deleted
DeleteRows ==
    /\ Idle
    /\ Intact(table)
    /\ \E S \in SUBSET table :
          \E c \in {delete_cover(table, S)} :
             /\ c.removed # {}
             /\ table' = table \ c.toremove
             /\ run' = [NoRun EXCEPT !.op = "delete", !.pc = "gaps",
                                     !.S = {r.id : r \in S}, !.t0 = table,
                                     !.ranges = SortedReverse(c.removed), !.res = "ok"]
    /\ UNCHANGED <<last, obj, procs>>

\* lines 63-66: one turn of the loop
DeleteCloseGap ==
    /\ run.op = "delete" /\ run.pc = "gaps"
    /\ table' = get_close_gap_sql(table, Head(run.ranges).lft, Head(run.ranges).rgt,
                                   Head(run.ranges).tree_id)
    /\ run' = [run EXCEPT !.ranges = Tail(run.ranges),
                          !.pc = IF Tail(run.ranges) = <<>> THEN "done" ELSE "gaps"]
    /\ UNCHANGED <<last, obj, procs>>

\* transaction.commit_unless_managed(): the call returns
Commit ==
    /\ run.pc = "done"
    /\ run' = NoRun
    /\ UNCHANGED <<table, last, obj, procs>>

\* ---- two callers at the same time ---------------------------------------

\* the call a caller makes on the object it holds, on the table as it is
Apply(t, c) ==
    IF c.op = "add_child" THEN add_child(t, c.self, c.n)
    ELSE add_sibling(t, c.self, c.pos, c.n, None)

\* the calls a caller can make on self without touching the roots
TreeCalls(t, self) ==
    {[op |-> "add_child", pos |-> ""]}
        \cup (IF is_root(t, self) THEN {}
              ELSE {[op |-> "add_sibling", pos |-> pos] : pos \in SiblingPos})

\* the two callers read nodes of two different trees and choose their calls
FetchPair ==
    /\ Idle
    /\ Intact(table)
    /\ Cardinality(table) <= MaxNodes
    /\ \E s1 \in table, s2 \in table :
          /\ s1.tree_id < s2.tree_id
          /\ \E c1 \in TreeCalls(table, s1), c2 \in TreeCalls(table, s2) :
                procs' = [i \in Callers |->
                            [NoProc EXCEPT
                                !.op = IF i = 1 THEN c1.op ELSE c2.op,
                                !.pos = IF i = 1 THEN c1.pos ELSE c2.pos,
                                !.self = IF i = 1 THEN s1 ELSE s2,
                                !.n = i, !.t0 = table, !.pc = "fetched"]]
    /\ UNCHANGED <<table, last, obj, run>>

\* a caller makes its call: add_child (lines 247-287) or add_sibling
\* (lines 290-385) on the object it holds
CallerRuns ==
    \E i \in Callers :
       /\ procs[i].pc = "fetched"
       /\ \E out \in {Apply(table, procs[i])} :
             /\ table' = out.t
             /\ procs' = [procs EXCEPT ![i].pc = "done", ![i].res = out.res,
                                       ![i].new = out.new]
       /\ UNCHANGED <<last, obj, run>>

\* add_root (node_order_by = []) made by a caller while the other may be
\* making one too: the read of the last root and the save of the new row
\* are two statements, and nothing is locked between them

\* line 167: last_root = cls.get_last_root_node()
RootRead ==
    /\ last = NoCall /\ obj = NoObj /\ run = NoRun
    /\ Intact(table)
    /\ \A j \in Callers : procs[j].op \in {"none", "add_root"}
    /\ Cardinality(table) + Cardinality({j \in Callers : procs[j].pc = "read"}) < MaxNodes
    /\ \E i \in Callers :
          /\ procs[i].pc = "idle"
          /\ \E last_root \in {get_last_root_node(table)} :
                /\ last_root.tree_id < MaxTreeId
                /\ procs' = [procs EXCEPT ![i] =
                                [NoProc EXCEPT !.op = "add_root", !.pc = "read",
                                               !.last_root = last_root, !.n = i,
                                               !.t0 = table]]
    /\ UNCHANGED <<table, last, obj, run>>

\* lines 174-193: the new row gets last_root.tree_id + 1, or 1 when no root
\* was read, and is saved
RootSave ==
    \E i \in Callers :
       /\ procs[i].op = "add_root" /\ procs[i].pc = "read"
       /\ LET last_root == procs[i].last_root
              newtree_id == IF last_root # None THEN last_root.tree_id + 1 ELSE 1
          IN /\ table' = table \cup {NewRow(table, newtree_id, 1, 1, procs[i].n)}
             /\ procs' = [procs EXCEPT ![i].pc = "done", ![i].res = "ok",
                                       ![i].new = NewId(table)]
       /\ UNCHANGED <<last, obj, run>>

\* line 194: return newobj
RootReturn ==
    \E i \in Callers :
       /\ procs[i].op = "add_root" /\ procs[i].pc = "done"
       /\ procs' = [procs EXCEPT ![i] = NoProc]
       /\ UNCHANGED <<table, last, obj, run>>

\* ---- the lists handed to load_bulk --------------------------------------

\* the pks a record may carry
MaxBulkId == 2
BulkIds == 1..MaxBulkId

\* records without children: complete, without 'data', without 'id'
BulkLeaves ==
    {[data |-> [n |-> 1], id |-> i] : i \in BulkIds}
        \cup {[id |-> 1]} \cup {[data |-> [n |-> 1]]}

\* records with at most one child
BulkRecords ==
    BulkLeaves
        \cup {[data |-> [n |-> 1], id |-> i, children |-> <<c>>] :
                 i \in BulkIds, c \in BulkLeaves}
        \cup {[data |-> [n |-> 1], children |-> <<c>>] : c \in BulkLeaves}

BulkInputs == {<<x>> : x \in BulkRecords} \cup {<<x, y>> : x, y \in BulkRecords}

\* the number of records of a list, children included
RECURSIVE BulkSize(_)
BulkSize(nodes) ==
    IF nodes = <<>> THEN 0
    ELSE 1 + (IF "children" \in DOMAIN Head(nodes) THEN BulkSize(Head(nodes).children)
              ELSE 0)
           + BulkSize(Tail(nodes))

\* load_bulk(bulk_data, keep_ids=keep_ids) on the table as it is
LoadBulk ==
    /\ Idle
    /\ Intact(table)
    /\ \E bulk_data \in BulkInputs, keep_ids \in BOOLEAN :
          /\ Cardinality(table) + BulkSize(bulk_data) <= MaxNodes
          /\ \E r \in {load_bulk(table, bulk_data, keep_ids)} :
                Step("load_bulk", 0, 0, IF keep_ids THEN "keep_ids" ELSE "", {bulk_data}, r)

\* the keys of a sorted model
MaxKey == 3
Keys == 1..MaxKey

AddRootSorted ==
    /\ Idle
    /\ Intact(table)
    /\ Cardinality(table) < MaxNodes
    /\ \E n \in Keys :
          Step("add_root", 0, 0, "sorted-sibling", {}, add_root_sorted(table, n))

AddChildSorted ==
    /\ Idle
    /\ Intact(table)
    /\ Cardinality(table) < MaxNodes
    /\ \E self \in table, n \in Keys :
          Step("add_child", self.id, 0, "sorted-sibling", {}, add_child_sorted(table, self, n))

Next == AddRoot \/ AddChild \/ AddSibling \/ Move \/ Delete \/ Forget

Spec == Init /\ [][Next]_vars

\* forests are built by insertion and deletion, dumped and loaded again
NextBulk == AddRoot \/ AddChild \/ AddSibling \/ Delete \/ Forget \/ BulkRoundTrip

SpecBulk == Init /\ [][NextBulk]_vars

\* a model with node_order_by = ['n'], filled by add_root and add_child
NextSorted == AddRootSorted \/ AddChildSorted \/ Forget

SpecSorted == Init /\ [][NextSorted]_vars

\* tables built by add_root and add_child, and lists loaded into them
NextLoad == AddRoot \/ AddChild \/ Forget \/ LoadBulk

SpecLoad == Init /\ [][NextLoad]_vars

\* tables built by calls on fresh objects, then calls on one kept object
NextKept == AddRoot \/ AddChild \/ AddSibling \/ Forget
               \/ Fetch \/ AddChildOn \/ AddSiblingOn \/ Release

SpecKept == Init /\ [][NextKept]_vars

\* tables built by insertion; move and delete run statement by statement
NextSteps == AddRoot \/ AddChild \/ AddSibling \/ Forget
                \/ MoveOpenHole \/ MoveReload \/ MoveRelocate \/ MoveCloseGap
                \/ DeleteRows \/ DeleteCloseGap \/ Commit

SpecSteps == Init /\ [][NextSteps]_vars

\* calls one after the other, and pairs of calls on two different trees
\* made by two callers in either order
NextPair == AddRoot \/ AddChild \/ AddSibling \/ Move \/ Delete \/ Forget
               \/ FetchPair \/ CallerRuns

SpecPair == Init /\ [][NextPair]_vars

\* forests built by calls one after the other, and add_root calls of two
\* callers whose statements interleave
NextRoots == AddRoot \/ AddChild \/ Forget \/ RootRead \/ RootSave \/ RootReturn

SpecRoots == Init /\ [][NextRoots]_vars

\* ---- claims -------------------------------------------------------------

\* C1: after every completed add_root, add_child, add_sibling, move and
\* delete, the lft and rgt values of the N rows of every tree_id in use are
\* pairwise distinct and are exactly 1..2N.
C1_Contiguity == Contiguous(table)

\* C2: after every completed operation every row has lft < rgt and any two
\* rows of a tree have intervals that are disjoint or strictly nested.
C2_Nesting == Nested(table)

\* C3: after every completed operation the stored depth of every row is 1
\* plus the number of rows of its tree whose interval strictly contains it.
C3_Depth == DepthOk(table)

\* the tree_id values in use are exactly 1..T, T the number of trees
TreeIdsContiguous(t) == TreeIds(t) = 1..Cardinality(TreeIds(t))

\* the call recorded in last' adds a root: add_root, or add_sibling on a root
RootInsertion ==
    /\ last'.res = "ok"
    /\ \/ last'.op = "add_root"
       \/ last'.op = "add_sibling" /\ Row(table, last'.a).lft = 1

\* the call recorded in last' deletes a query set that holds a root
RootDeletion ==
    /\ last'.op = "delete"
    /\ \E r \in table : r.id \in last'.S /\ r.lft = 1

\* C4 as claimed: after a root-level insertion or the deletion of a whole
\* tree (on a table whose tree_ids were 1..T) the tree_ids in use are again
\* exactly 1..T for the new number of trees T.
C4_Original ==
    [][(TreeIdsContiguous(table) /\ (RootInsertion \/ RootDeletion))
          => TreeIdsContiguous(table')]_vars

\* C4 amended: a root-level insertion on a table whose tree_ids in use are
\* 1..T leaves them 1..T+1; the deletion of a query set renumbers no tree:
\* every surviving row keeps its tree_id, so the tree_id of a deleted tree
\* stays unused.
C4_TreeIds ==
    [][/\ (TreeIdsContiguous(table) /\ RootInsertion)
            => TreeIds(table') = 1..(Cardinality(TreeIds(table)) + 1)
       /\ last'.op = "delete"
            => \A r \in table' : r.tree_id = Row(table, r.id).tree_id]_vars

\* a root was inserted to the left of a root that is not the first one
C4_Witness ==
    /\ last.op = "add_sibling" /\ last.pos = "left" /\ last.res = "ok"
    /\ Row(table, last.new).lft = 1
    /\ Row(table, last.new).tree_id = 2
    /\ TreeIds(table) = 1..3

\* ---- the tree a table encodes, read off the intervals -------------------

PKs(S) == {r.id : r \in S}

\* the strict descendants of r
Subtree(t, r) == {d \in t : r \in Enclosing(t, d)}

\* the pk of the innermost row that encloses r, 0 for a root
ParentOf(t, r) ==
    IF Enclosing(t, r) = {} THEN 0
    ELSE (CHOOSE a \in Enclosing(t, r) : \A b \in Enclosing(t, r) : b.lft <= a.lft).id

\* r and the rows with the same parent (the roots, for a root)
Siblings(t, r) == {q \in t : ParentOf(t, q) = ParentOf(t, r)}

IsFirstSibling(t, r) == \A q \in Siblings(t, r) : q = r \/ Before(r, q)
IsLastSibling(t, r) == \A q \in Siblings(t, r) : q = r \/ Before(q, r)

\* x is the sibling of y that comes immediately before y
JustBefore(t, x, y) ==
    /\ x \in Siblings(t, y)
    /\ Before(x, y)
    /\ ~\E q \in Siblings(t, y) : Before(x, q) /\ Before(q, y)

\* the rows with pks in I come in the same (tree_id, lft) order in t and u
SameOrder(t, u, I) ==
    \A i, j \in I : Before(Row(t, i), Row(t, j)) <=> Before(Row(u, i), Row(u, j))

\* the rows with pks in I enclose one another in u exactly as they do in t
SameNesting(t, u, I) ==
    \A i, j \in I : (Row(t, i) \in Enclosing(t, Row(t, j)))
                       <=> (Row(u, i) \in Enclosing(u, Row(u, j)))

\* C5: move(self, target, pos) with target a strict descendant of self fails
\* with InvalidMoveToDescendant for every position, and the table is the
\* same before and after the failed call.
C5_MoveToDescendant ==
    [][(last'.op = "move" /\
        Row(table, last'.a) \in Enclosing(table, Row(table, last'.b)))
          => (last'.res = "InvalidMoveToDescendant" /\ table' = table)]_vars

\* a child-form move onto a descendant that has children of its own failed
C5_Witness ==
    /\ last.op = "move" /\ last.res = "InvalidMoveToDescendant"
    /\ last.pos \in ChildPos
    /\ Row(table, last.a) \in Enclosing(table, Row(table, last.b))
    /\ ~is_leaf(Row(table, last.b))

\* the rows of t that delete of the rows with pks in S must leave
Survivors(t, S) ==
    {r \in t : r.id \notin S /\ ~\E a \in Enclosing(t, r) : a.id \in S}

\* C6: delete of the query set S removes exactly the rows of S and their
\* descendants; the surviving rows keep their payload, their relative
\* (tree_id, lft) order and their ancestor relation; deleting the root of a
\* single-tree table leaves the table empty.
C6_CascadingDelete ==
    [][last'.op = "delete" =>
          LET keep == PKs(Survivors(table, last'.S))
          IN /\ PKs(table') = keep
             /\ \A i \in keep : Row(table', i).n = Row(table, i).n
             /\ SameOrder(table, table', keep)
             /\ SameNesting(table, table', keep)
             /\ (Cardinality(TreeIds(table)) = 1 /\
                 (\E r \in table : r.lft = 1 /\ r.id \in last'.S)) => table' = {}]_vars

\* two selected rows took a third row with them and a fourth row survived
C6_Witness ==
    /\ last.op = "delete" /\ last.size = 4
    /\ Cardinality(last.S) = 2
    /\ Cardinality(table) = 1

\* C7: add_sibling(pos) on a pivot p of an unsorted model creates a sibling
\* of p with the depth of p: the first sibling for first-sibling, the last
\* for last-sibling, the one immediately before p for left and immediately
\* after p for right; the siblings that existed keep their relative order.
C7_AddSiblingPlacement ==
    [][(last'.op = "add_sibling" /\ last'.res = "ok") =>
          LET p == Row(table, last'.a)
              q == Row(table', last'.a)
              new == Row(table', last'.new)
          IN /\ PKs(table') = PKs(table) \cup {new.id}
             /\ new.id \notin PKs(table)
             /\ new.depth = p.depth
             /\ PKs(Siblings(table', q)) = PKs(Siblings(table, p)) \cup {new.id}
             /\ SameOrder(table, table', PKs(table))
             /\ last'.pos = "first-sibling" => IsFirstSibling(table', new)
             /\ last'.pos = "last-sibling" => IsLastSibling(table', new)
             /\ last'.pos = "left" => JustBefore(table', new, q)
             /\ last'.pos = "right" => JustBefore(table', q, new)]_vars

\* a node was added to the right of a non-root pivot that has a later sibling
C7_Witness ==
    /\ last.op = "add_sibling" /\ last.pos = "right" /\ last.res = "ok"
    /\ Row(table, last.new).depth = 2
    /\ JustBefore(table, Row(table, last.a), Row(table, last.new))
    /\ ~IsLastSibling(table, Row(table, last.new))

\* C8: a legal move (target not a descendant of self, self # target) keeps
\* the subtree of self intact (the same descendants, in the same relative
\* order, at the same depth below self), keeps the relative (tree_id, lft)
\* order and the other ancestors of every row outside the subtree, and puts
\* self at the requested position relative to target.
C8_MoveRelocates ==
    [][(/\ last'.op = "move"
        /\ last'.a # last'.b
        /\ Row(table, last'.a) \notin Enclosing(table, Row(table, last'.b))) =>
          LET self == Row(table, last'.a)
              moved == Row(table', last'.a)
              target == Row(table', last'.b)
              sub == PKs(Subtree(table, self))
              rest == PKs(table) \ (sub \cup {self.id})
          IN /\ last'.res \in {"ok", "noop"}
             /\ PKs(table') = PKs(table)
             /\ PKs(Subtree(table', moved)) = sub
             /\ SameOrder(table, table', sub \cup {self.id})
             /\ \A i \in sub : Row(table', i).depth - moved.depth
                                  = Row(table, i).depth - self.depth
             /\ SameOrder(table, table', rest)
             /\ \A i \in rest :
                   PKs(Enclosing(table', Row(table', i))) \ (sub \cup {self.id})
                     = PKs(Enclosing(table, Row(table, i))) \ (sub \cup {self.id})
             /\ \A i \in PKs(table) : Row(table', i).n = Row(table, i).n
             /\ last'.pos = "first-child" =>
                   ParentOf(table', moved) = target.id /\ IsFirstSibling(table', moved)
             /\ last'.pos = "last-child" =>
                   ParentOf(table', moved) = target.id /\ IsLastSibling(table', moved)
             /\ last'.pos = "first-sibling" =>
                   moved \in Siblings(table', target) /\ IsFirstSibling(table', moved)
             /\ last'.pos = "last-sibling" =>
                   moved \in Siblings(table', target) /\ IsLastSibling(table', moved)
             /\ last'.pos = "left" => JustBefore(table', moved, target)
             /\ last'.pos = "right" => JustBefore(table', target, moved)
             /\ Intact(table')]_vars

\* a node with a child was moved behind its sibling: the children of the
\* root read target, then self
C8_Witness ==
    /\ last.op = "move" /\ last.res = "ok" /\ last.pos = "last-sibling"
    /\ last.a # last.b
    /\ Row(table, last.a).depth = 2
    /\ Subtree(table, Row(table, last.a)) # {}
    /\ JustBefore(table, Row(table, last.b), Row(table, last.a))
    /\ Intact(table)

\* C9: move(self, self, pos) with pos left, or right or last-sibling when
\* self is the last sibling, or first-sibling when self is the first
\* sibling, returns before any UPDATE: every row of the table is unchanged.
C9_MoveNoop ==
    [][(/\ last'.op = "move"
        /\ last'.a = last'.b
        /\ \/ last'.pos = "left"
           \/ last'.pos \in {"right", "last-sibling"}
                 /\ IsLastSibling(table, Row(table, last'.a))
           \/ last'.pos = "first-sibling"
                 /\ IsFirstSibling(table, Row(table, last'.a)))
          => (last'.res = "noop" /\ table' = table)]_vars

\* move(self, self, 'right') on a last sibling that is not the only one
C9_Witness ==
    /\ last.op = "move" /\ last.res = "noop" /\ last.a = last.b
    /\ last.pos = "right"
    /\ IsLastSibling(table, Row(table, last.a))
    /\ ~IsFirstSibling(table, Row(table, last.a))

\* C10: on an unsorted model, loading dump_bulk(parent=None, keep_ids=False)
\* of a forest into the emptied table and dumping again gives the records
\* of the first dump, and the pks load_bulk returns are those of the new
\* rows in DFS preorder.
C10_BulkRoundTrip ==
    [][last'.op = "load_bulk" =>
          /\ last'.res = "ok"
          /\ dump_bulk(table') = dump_bulk(table)
          /\ Len(last'.added) = Cardinality(table')
          /\ \A i \in 1..Len(last'.added) : last'.added[i] = OrderBy(table')[i].id
          /\ Intact(table')]_vars

\* a forest of two trees, the first with a child and a grandchild, was
\* loaded, and its payloads are no longer the pks of their rows
C10_Witness ==
    /\ last.op = "load_bulk" /\ last.res = "ok"
    /\ Cardinality(TreeIds(table)) = 2
    /\ \E r \in table : r.depth = 3
    /\ \E r \in table : r.n # r.id
    /\ Len(dump_bulk(table)) = 2

\* C11: on a model with a sort key, after any sequence of add_root and
\* add_child calls the siblings under every common parent, and the roots,
\* read in (tree_id, lft) order are non-decreasing under the key.
C11_SortedDiscipline ==
    \A x, y \in table :
        (x \in Siblings(table, y) /\ Before(x, y)) => x.n <= y.n

\* add_root(3), add_root(1), add_root(2): the roots read 1, 2, 3 in the
\* trees 1, 2, 3
C11_Witness ==
    /\ Cardinality(table) = 3
    /\ \A r \in table : r.lft = 1 /\ r.tree_id = r.n
    /\ Row(table, 1).n = 3 /\ Row(table, 2).n = 1 /\ Row(table, 3).n = 2

\* a record of the list, at any level, lacks 'data', or 'id' under keep_ids
RECURSIVE Malformed(_, _)
Malformed(nodes, keep_ids) ==
    \E i \in 1..Len(nodes) :
        \/ "data" \notin DOMAIN nodes[i]
        \/ keep_ids /\ "id" \notin DOMAIN nodes[i]
        \/ "children" \in DOMAIN nodes[i] /\ Malformed(nodes[i].children, keep_ids)

\* C12: load_bulk of a list with a malformed record, at whatever position or
\* nesting level, fails and leaves the table as it was before the call.
C12_MalformedBulk ==
    [][(last'.op = "load_bulk" /\
        \E bulk_data \in last'.S : Malformed(bulk_data, last'.pos = "keep_ids"))
          => (last'.res # "ok" /\ table' = table)]_vars

\* the calls made on the kept object are k calls of add_child
OnlyAddChild(k) ==
    /\ Len(obj.calls) = k
    /\ \A i \in 1..k : obj.calls[i].op = "add_child"

\* C13: n >= 1 calls of add_child in succession on one object that was read
\* as a leaf (l, l+1) leave the receiver stored as (l, l+2n+1), with n
\* children at depth+1 at (l+1, l+2), (l+3, l+4), ... in insertion order,
\* and the contiguity invariant holds.
C13_RepeatedAddChild ==
    \A k \in 1..MaxCalls :
        (OnlyAddChild(k) /\ is_leaf(obj.first)) =>
            LET l == obj.first.lft
                stored == Row(table, obj.first.id)
            IN /\ \A i \in 1..k : obj.calls[i].res = "ok"
               /\ stored.lft = l /\ stored.rgt = l + 2 * k + 1
               /\ \A i \in 1..k :
                     \E c \in table :
                        /\ c.id = obj.calls[i].new
                        /\ c.tree_id = stored.tree_id
                        /\ c.lft = l + 2 * i - 1 /\ c.rgt = l + 2 * i
                        /\ c.depth = stored.depth + 1
               /\ Contiguous(table)

\* C14: add_sibling('first-sibling') followed by add_sibling('last-sibling')
\* on one pivot object, root or not, yields a tree that holds both new
\* nodes as siblings of the pivot, the first of them before the pivot in
\* (tree_id, lft) order.
C14_FirstThenLast ==
    (/\ Len(obj.calls) = 2
     /\ obj.calls[1].op = "add_sibling" /\ obj.calls[1].pos = "first-sibling"
     /\ obj.calls[2].op = "add_sibling" /\ obj.calls[2].pos = "last-sibling") =>
        /\ obj.calls[1].res = "ok" /\ obj.calls[2].res = "ok"
        /\ {obj.calls[1].new, obj.calls[2].new} \subseteq PKs(table)
        /\ Before(Row(table, obj.calls[1].new), Row(table, obj.first.id))
        /\ Intact(table)
        /\ {obj.calls[1].new, obj.calls[2].new}
              \subseteq PKs(Siblings(table, Row(table, obj.first.id)))

\* C20: after add_child returns, the rgt the receiver holds in memory is
\* the rgt stored for it, for a leaf receiver and for a receiver that had
\* children.
C20_ReceiverRgt ==
    [][(/\ Len(obj'.calls) = Len(obj.calls) + 1
        /\ obj'.calls[Len(obj'.calls)].op = "add_child"
        /\ obj'.calls[Len(obj'.calls)].res = "ok")
          => obj'.row.rgt = Row(table', obj.row.id).rgt]_vars

\* C15: in every state the mutation operations reach, for every node the
\* descendant count (rgt - lft - 1) / 2 is the number of rows that
\* get_descendants returns, and the node is a leaf (rgt - lft = 1) exactly
\* when get_descendants returns no row.
C15_DescendantCount ==
    \A r \in table :
        /\ get_descendant_count(r) = Cardinality(get_descendants(table, r))
        /\ (r.rgt - r.lft = 1) <=> ({q \in get_tree(table, r) : q.id # r.id} = {})

\* C16: in every state the mutation operations reach, for all nodes d and a
\* the three reads agree: is_descendant_of(d, a), a in get_ancestors(d) and
\* d in get_descendants(a) are all true or all false (and none raises).
C16_ReadsAgree ==
    \A d, a \in table :
        /\ get_root_ok(table, d)
        /\ is_descendant_of(d, a) <=> (a \in get_ancestors(table, d))
        /\ is_descendant_of(d, a) <=> (d \in get_descendants(table, a))

\* the greatest tree_id in use, 0 in an empty table
MaxTree(t) == IF t = {} THEN 0 ELSE CHOOSE m \in TreeIds(t) : \A x \in TreeIds(t) : x <= m

\* C17: add_root on an unsorted model changes no existing row; the only
\* difference is one new row at tree_id = greatest tree_id in use + 1 (1 in
\* an empty table), lft = 1, rgt = 2, depth = 1.
C17_AddRootFrame ==
    [][(last'.op = "add_root" /\ last'.pos = "") =>
          /\ last'.res = "ok"
          /\ table \subseteq table'
          /\ Cardinality(table' \ table) = 1
          /\ \A r \in table' \ table :
                /\ r.id = last'.new /\ r.id \notin PKs(table)
                /\ r.tree_id = MaxTree(table) + 1
                /\ r.lft = 1 /\ r.rgt = 2 /\ r.depth = 1]_vars

\* a root was added next to a tree of three rows whose tree_id is not 1
C17_Witness ==
    /\ last.op = "add_root" /\ last.res = "ok"
    /\ Cardinality(table) = 4
    /\ 1 \notin TreeIds(table)
    /\ Row(table, last.new).tree_id = MaxTreeId
    /\ \E r \in table : r.depth = 2 /\ r.tree_id = MaxTreeId - 1

\* the lft and rgt values in use in a tree
Endpoints(t, tid) == {r.lft : r \in TreeRows(t, tid)} \cup {r.rgt : r \in TreeRows(t, tid)}

\* the move in progress is a legal one: the node self goes under is not
\* self and is outside the subtree of self
LegalMove ==
    LET under == IF run.pos = "last-child" THEN run.parent.id
                 ELSE ParentOf(run.t0, run.target)
    IN /\ under # run.a
       /\ under \notin PKs(Subtree(run.t0, run.self))

\* C18: move makes the hole, reads self again, relocates the subtree and
\* closes the gap, in this order; the relocation and the closing use the
\* lft, rgt and tree_id self has after the hole was made; for every legal
\* move the hole [newpos, newpos+gap-1] holds no row when the subtree is
\* moved into it and exactly the subtree afterwards, and the move ends on
\* a table that satisfies the encoding invariants.
C18_MoveOrder ==
    (run.op = "move" /\ LegalMove) =>
        LET hole == run.newpos .. (run.newpos + run.gap - 1)
            inhole == {r \in TreeRows(table, run.target_tree) :
                          r.lft \in hole \/ r.rgt \in hole}
            self0 == Row(run.t0, run.a)
        IN /\ run.pc = "reloaded" =>
                 /\ run.fromobj = Row(table, run.a)
                 /\ inhole = {}
           /\ run.pc = "relocated" =>
                 /\ PKs(inhole) = PKs(Subtree(run.t0, self0)) \cup {run.a}
                 /\ Row(table, run.a).lft = run.newpos
                 /\ Row(table, run.a).rgt = run.newpos + run.gap - 1
                 /\ \A r \in inhole : r.lft \in hole /\ r.rgt \in hole
           /\ run.pc = "done" =>
                 /\ run.res = "ok"
                 /\ Intact(table)
                 /\ table = move_exec(run.t0, self0, run.target, run.pos, run.parent).t

\* a node with a child is about to be moved to the left of an earlier node
\* of its tree, and the hole has shifted it
C18_Witness ==
    /\ run.op = "move" /\ run.pc = "reloaded"
    /\ run.target_tree = run.self.tree_id
    /\ run.newpos < run.self.lft
    /\ run.fromobj.lft = run.self.lft + run.gap
    /\ run.gap = 4

\* C19: the hot path of delete removes the rows first and then closes one
\* gap per removed range, in descending (tree_id, lft, rgt) order: when a
\* gap is closed its stored bounds are an interval no row reaches into and
\* the values above it are the next ones; the result satisfies the
\* contiguity invariant.
C19_DeleteOrder ==
    run.op = "delete" =>
        /\ PKs(table) = PKs(Survivors(run.t0, run.S))
        /\ \A i, j \in 1..Len(run.ranges) :
              i < j => RangeAfter(run.ranges[i], run.ranges[j])
        /\ run.pc = "gaps" =>
              LET h == Head(run.ranges)
                  E == Endpoints(table, h.tree_id)
                  above == {e \in E : e > h.rgt}
              IN /\ run.ranges # <<>>
                 /\ E \cap (h.lft .. h.rgt) = {}
                 /\ above = (h.rgt + 1) .. (h.rgt + Cardinality(above))
                 /\ \A r \in TreeRows(table, h.tree_id) :
                       r.lft < h.lft => r.lft = Row(run.t0, r.id).lft
        /\ run.pc = "done" =>
              /\ Contiguous(table)
              /\ table = delete(run.t0, {r \in run.t0 : r.id \in run.S}).t

\* two leaves of one tree and the root of another tree are being deleted:
\* three gaps are left to close
C19_Witness ==
    /\ run.op = "delete" /\ run.pc = "gaps"
    /\ Len(run.ranges) = 3
    /\ Cardinality(TreeIds(run.t0)) = 2
    /\ Cardinality(table) = 1

\* the step is a move(self, target, 'last-sibling') whose target is a root
MoveToLastRoot ==
    /\ last'.op = "move" /\ last'.pos = "last-sibling"
    /\ is_root(table, Row(table, last'.b))

\* the step made the subtree of self the last tree: tree_id is the greatest
\* tree_id in use before plus 1, self is at lft 1 and depth 1, the subtree
\* is shifted by 1 - self.lft, the gap in the tree it left is closed and the
\* rows of the other trees are as they were
MadeLastTree ==
    LET self == Row(table, last'.a)
        sub == Subtree(table, self) \cup {self}
        gap == self.rgt - self.lft + 1
    IN /\ last'.res = "ok"
       /\ PKs(table') = PKs(table)
       /\ \A r \in sub :
             Row(table', r.id) = [r EXCEPT !.tree_id = MaxTree(table) + 1,
                                           !.lft = r.lft + 1 - self.lft,
                                           !.rgt = r.rgt + 1 - self.lft,
                                           !.depth = r.depth - self.depth + 1]
       /\ Row(table', self.id).lft = 1 /\ Row(table', self.id).depth = 1
       /\ \A r \in table \ sub :
             IF r.tree_id # self.tree_id THEN r \in table'
             ELSE Row(table', r.id) =
                     [r EXCEPT !.lft = IF r.lft > self.rgt THEN r.lft - gap ELSE r.lft,
                               !.rgt = IF r.rgt > self.rgt THEN r.rgt - gap ELSE r.rgt]
       /\ Intact(table')

\* C21 as stated: move(self, target, 'last-sibling') with target a root
\* makes the subtree of self a new tree whose tree_id is the greatest
\* tree_id in use before the move plus 1, with self at lft = 1 and depth = 1
\* and every descendant shifted by 1 - self.lft; the gap in the tree self
\* came from is closed and no other tree's rows change.
C21_AsStated ==
    [][MoveToLastRoot => MadeLastTree]_vars

\* C21: the same, except when self is target and is already the last root:
\* then the move returns without a write and the table is unchanged.
C21_MoveToLastRoot ==
    [][MoveToLastRoot =>
          IF last'.a = last'.b /\ Row(table, last'.b).tree_id = MaxTree(table)
          THEN last'.res = "noop" /\ table' = table
          ELSE MadeLastTree]_vars

\* a node with a child was moved out of a tree that keeps two rows and is
\* now the last root
C21_Witness ==
    /\ last.op = "move" /\ last.pos = "last-sibling" /\ last.res = "ok"
    /\ last.a # last.b
    /\ Row(table, last.b).lft = 1
    /\ Cardinality(TreeRows(table, Row(table, last.b).tree_id)) = 2
    /\ Row(table, last.a).lft = 1 /\ Row(table, last.a).rgt = 4
    /\ Row(table, last.a).tree_id = MaxTree(table)
    /\ Cardinality(TreeIds(table)) = 2

\* the step is a call that may renumber the trees: add_sibling or move
\* against a root with a position that is not the last one
ShiftsTrees ==
    /\ last'.op \in {"add_sibling", "move"}
    /\ is_root(table, Row(table, IF last'.op = "move" THEN last'.b ELSE last'.a))
    /\ last'.pos \in {"first-sibling", "left", "right"}

\* the tree_ids a call works on: those of its receiver and of its target,
\* or those of the rows of the query set it deletes
OwnTrees ==
    {r.tree_id : r \in {q \in table : q.id \in {last'.a, last'.b} \cup last'.S}}

\* a call on a node of a tree leaves the rows of the other trees alone:
\* add_child and add_sibling on a non-root change none of their columns,
\* and no call changes more than their tree_id, which only a call that
\* renumbers the trees changes
FrameOfCall ==
    last'.op \in {"add_root", "add_child", "add_sibling", "move", "delete"} =>
        \A r \in table :
           r.tree_id \notin OwnTrees =>
              /\ r.id \in PKs(table')
              /\ \/ Row(table', r.id) = r
                 \/ /\ ShiftsTrees
                    /\ Row(table', r.id) = [r EXCEPT !.tree_id = r.tree_id + 1]
              /\ (\/ last'.op = "add_child"
                  \/ last'.op = "add_sibling" /\ ~is_root(table, Row(table, last'.a)))
                    => r \in table'

\* the same for the call one of two callers makes
FrameOfCaller ==
    \A i \in Callers :
       (procs[i].pc = "fetched" /\ procs'[i].pc = "done") =>
          \A r \in table : r.tree_id # procs[i].self.tree_id => r \in table'

\* the rows of a table, the rows that are not in old without their pk
Content(t, old) == {[r EXCEPT !.id = IF r.id \in old THEN r.id ELSE 0] : r \in t}

\* both callers have made their calls, and the table is the one their calls
\* give when the first caller goes first, whichever went first; the store
\* numbers the two new rows in the order of the calls
Commuted ==
    (\A i \in Callers : procs[i].pc = "done") =>
        LET t0 == procs[1].t0
            first == Apply(t0, procs[1])
            second == Apply(first.t, procs[2])
        IN /\ \A i \in Callers : procs[i].res = "ok"
           /\ Content(table, PKs(t0)) = Content(second.t, PKs(t0))
           /\ Intact(table)

\* C22: add_child and add_sibling on a non-root node of tree t change no row
\* of another tree, so two such calls on different trees give the same table
\* in either order; only add_sibling and move against a root that renumber
\* the trees change the tree_id of the rows of other trees, and nothing else
\* in them.
C22_Independent ==
    [](Commuted) /\ [][FrameOfCall /\ FrameOfCaller]_vars

\* two callers have added a sibling to non-root nodes of two trees, the
\* caller of the higher tree first
C22_Witness ==
    /\ \A i \in Callers : procs[i].pc = "done" /\ procs[i].op = "add_sibling"
    /\ procs[1].pos = "left" /\ procs[2].pos = "last-sibling"
    /\ procs[2].new < procs[1].new
    /\ Cardinality(table) = MaxNodes + 2

\* C23: move with target == self never corrupts the tree: the table still
\* satisfies the encoding invariants (no node is inside itself, no lft or
\* rgt is smaller than 1), and with first-child or last-child on a leaf
\* self the call fails or leaves every row as it was.
C23_MoveToSelf ==
    [][(last'.op = "move" /\ last'.a = last'.b) =>
          /\ Intact(table')
          /\ \A r \in table' : r.lft >= 1 /\ r.rgt >= 1
          /\ (last'.pos \in ChildPos /\ is_leaf(Row(table, last'.a))) =>
                table' = table]_vars

\* C24: every tree_id in use has exactly one row with lft = 1, also when two
\* add_root calls interleave so that both read the last root before either
\* saves its new row.
C24_RootUnique ==
    \A tid \in TreeIds(table) :
       Cardinality({r \in TreeRows(table, tid) : r.lft = 1}) = 1

====
